---- MODULE Spec2Model ----
(***************************************************************************)
(* electron-bus: a message bus between the Electron background process     *)
(* ("main") and its renderer processes.  One ElectronBus instance per      *)
(* process; the instances talk over Electron IPC, modelled as FIFO links.  *)
(*                                                                         *)
(* JavaScript runs every handler to completion, so each action below is a  *)
(* whole synchronous call: dispatch() includes the local fan-out, every    *)
(* call a subscriber makes from inside its callback, and the relay loop.   *)
(* The body of the async function localDispatch has no await, so it runs   *)
(* synchronously inside its caller; an exception thrown in it rejects the  *)
(* promise localDispatch returns (which nobody observes) and ends its      *)
(* loop.                                                                   *)
(***************************************************************************)
EXTENDS Integers, Sequences, FiniteSets, TLC

(* ------------------------------ bounds --------------------------------- *)
MaxDraw == 2   \* waiting dispatches in one run (one random draw each)
MaxOps  == 3   \* calls the application makes on the buses in one run

(* ------------------------ constants of the code ------------------------ *)
TYPE           == "electron-bus--message-envelope"
CHANNEL        == "electron-bus--message"
DefaultTimeout == 15000

(* --------------------------- the universe ------------------------------ *)
Main      == "main"
Windows   == {"w1", "w2"}
Buses     == {Main} \cup Windows
Channels  == {"c"}
Undefined == [undefined |-> TRUE]   \* the value undefined
\* The calls of dispatch tried on bus b: dispatch(c, p), dispatch(c, p,
\* {waiting: true}) and dispatch(c, p, {waiting: true, timeout: 50}), where
\* the payload p names the process that dispatches it; timeout 0 stands for
\* an absent options.timeout.
PayloadOf(b) == [x |-> IF b = Main THEN 0 ELSE IF b = "w1" THEN 1 ELSE 2]
DispatchInputs(b) ==
    {[payload |-> PayloadOf(b), waiting |-> w, timeout |-> t] :
        <<w, t>> \in {<<FALSE, 0>>, <<TRUE, 0>>, <<TRUE, 50>>}}
NoChannel == "<undefined>"          \* undefined where a string is expected
TimeOut   == [error |-> "Time out"]
SendError == [error |-> "send failed"]
Digits36  == <<"0", "1", "2", "3", "4", "5", "6", "7", "8", "9", "a", "b",
               "c", "d", "e", "f", "g", "h", "i", "j", "k", "l", "m", "n",
               "o", "p", "q", "r", "s", "t", "u", "v", "w", "x", "y", "z">>
Draws     == 1 .. MaxDraw     \* values of parseInt(MAX_SAFE_INTEGER * random)

(* Subscriber callbacks.  The user callbacks are the ones of the README:   *)
(* a logger, the responder of "Message Responses", and one that throws.    *)
Log      == [kind |-> "log", id |-> 0]
Echo     == [kind |-> "echo", id |-> 0]
Bad      == [kind |-> "bad", id |-> 0]
UserCallbacks == {Log, Echo, Bad}
(* Callbacks that act on what they are handed: one writes into the payload *)
(* it receives (payload.x = -1), one unsubscribes the logger of channel    *)
(* "c" from inside its invocation (bus.unsubscribe("c", log)).             *)
Mutator   == [kind |-> "mutator", id |-> 0]
Canceller == [kind |-> "canceller", id |-> 0]
ActingCallbacks == {Log, Mutator, Canceller}
NoCallback == [kind |-> "none", id |-> 0]

(* What may be handed to attach and to the constructor besides a window,   *)
(* and what may arrive on CHANNEL besides the envelopes of a bus.          *)
NoRemote       == "none"
PlainObject    == "{}"
InvalidRemotes == {PlainObject}
Null           == [null |-> TRUE]
EmptyObject    == [k \in {} |-> 0]
OtherType      == [type |-> "something-else", channel |-> "c", payload |-> [x |-> 9]]
DuckEnvelope   == [type |-> "electron-bus--message-envelope", channel |-> "c",
                   payload |-> [x |-> 9]]
ForeignValues  == {Null, Undefined, [number |-> 42], EmptyObject, OtherType}
InboundValues  == ForeignValues \cup {DuckEnvelope}
Responder(n)  == [kind |-> "responder", id |-> n]

VARIABLES
    channels,   \* channels[b]: Map channel name -> Set of callbacks (insertion order)
    remotes,    \* remotes[b]: Set of endpoints (insertion order)
    listeners,  \* listeners[b]: onRemoteMessage listeners registered on CHANNEL
    requests,   \* the closures of the waiting dispatches: timer, promise, return path
    net,        \* net[<<from, to>>]: IPC messages in flight
    broken,     \* windows whose webContents.send throws
    ops,        \* calls made by the application so far
    last        \* what the latest call did: callbacks invoked, sends made, errors

vars == <<channels, remotes, listeners, requests, net, broken, ops, last>>

(* ------------------------- JavaScript helpers -------------------------- *)
Range(s)  == {s[i] : i \in 1 .. Len(s)}
EmptyMap  == [k \in {} |-> <<>>]

RECURSIVE SetDelete(_, _)
SetDelete(s, x) ==
    IF s = <<>> THEN <<>>
    ELSE IF Head(s) = x THEN SetDelete(Tail(s), x)
    ELSE <<Head(s)>> \o SetDelete(Tail(s), x)

SetAdd(s, x) == IF x \in Range(s) THEN s ELSE Append(s, x)

MapDelete(m, k) == [j \in DOMAIN m \ {k} |-> m[j]]
MapSet(m, k, v) == [j \in DOMAIN m \cup {k} |-> IF j = k THEN v ELSE m[j]]

\* o.f, undefined when o has no property f
Get(o, f) == IF f \in DOMAIN o THEN o[f] ELSE NoChannel

RECURSIVE toString36(_)
toString36(n) ==
    IF n < 36 THEN Digits36[n + 1]
    ELSE toString36(n \div 36) \o Digits36[(n % 36) + 1]

\* lodash.clonedeep on a plain object: a new object with a copy of each field
clone(payload) == [k \in DOMAIN payload |-> payload[k]]

PendingPromise   == [state |-> "pending", value |-> Undefined]
resolve(p, v)    == IF p.state = "pending" THEN [state |-> "resolved", value |-> v] ELSE p
reject(p, e)     == IF p.state = "pending" THEN [state |-> "rejected", value |-> e] ELSE p
clearTimeout(t)  == IF t = "armed" THEN "cleared" ELSE t

(* --------------------------- MessageEnvelope --------------------------- *)
MessageEnvelope(channel, payload, returnChannel) ==
    [type |-> TYPE, channel |-> channel, payload |-> payload,
     returnChannel |-> returnChannel]

\* Boolean(o && o.type && o.type === MessageEnvelope.TYPE)
FalsyValues == {Undefined, [null |-> TRUE], [number |-> 0], [string |-> ""]}
\* isEnvelope without the comparison of o.type with TYPE
isEnvelope_anyType(o) ==
    /\ o \notin FalsyValues
    /\ Get(o, "type") \notin {NoChannel, ""}

isEnvelope(o) ==
    /\ o \notin FalsyValues
    /\ Get(o, "type") \notin {NoChannel, ""}
    /\ Get(o, "type") = TYPE

(* ----------------------------- ElectronBus ----------------------------- *)
subscribe(ch, channel, callback) ==
    LET ch1 == IF channel \notin DOMAIN ch THEN MapSet(ch, channel, <<>>) ELSE ch
    IN  [ch1 EXCEPT ![channel] = SetAdd(@, callback)]

\* unsubscribe removing the whole channel, whoever else is subscribed to it
unsubscribe_dropsChannel(ch, channel, callback) ==
    IF channel \notin DOMAIN ch THEN ch
    ELSE MapDelete(ch, channel)

\* unsubscribe without "if there are no subscribers left, remove the channel"
unsubscribe_keepsChannel(ch, channel, callback) ==
    IF channel \notin DOMAIN ch THEN ch
    ELSE [ch EXCEPT ![channel] = SetDelete(@, callback)]

unsubscribe(ch, channel, callback) ==
    IF channel \notin DOMAIN ch THEN ch
    ELSE LET subscribers == SetDelete(ch[channel], callback)
         IN  IF Len(subscribers) = 0 THEN MapDelete(ch, channel)
             ELSE [ch EXCEPT ![channel] = subscribers]

ReturnChannelName(channel, n) == channel \o "-" \o toString36(n)

\* The closure of a waiting dispatch (ElectronBus.js 183-208)
NewRequest(b, channel, payload, returnChannel) ==
    [bus |-> b, channel |-> channel, payload |-> payload,
     returnChannel |-> returnChannel,
     timer |-> "armed",
     promise |-> PendingPromise,
     responses |-> 0]

NoError     == "none"
AttachError == "Remote must be an instance of BrowserWindow"

\* A call in progress on bus b works on S: the bus's registry, the closures,
\* and the record of what the call has done so far.
\* heap holds the objects of the call (a payload is passed by reference: as
\* an index into heap), trace the order of what the call did, depth the
\* number of dispatch calls that have not returned yet.
Start(b) ==
    [ch |-> channels[b], req |-> requests, calls |-> <<>>, sends |-> <<>>,
     plain |-> <<>>, threw |-> FALSE, unhandled |-> 0, delay |-> 0,
     heap |-> <<>>, trace |-> <<>>, depth |-> 0, error |-> NoError]

\* a call that is handed the object payload: it is heap[PayloadRef]
PayloadRef == 1
StartWith(b, payload) == [Start(b) EXCEPT !.heap = <<payload>>]

Event(S, e) == [S EXCEPT !.trace = Append(@, [e |-> e, d |-> S.depth])]

\* clone handing back the object it was given
cloneDeep_sameObject(S, ref) == [S |-> S, ref |-> ref]

\* clone(payload) where payload is the object heap[ref]: a new object
cloneDeep(S, ref) ==
    [S |-> [S EXCEPT !.heap = Append(@, clone(S.heap[ref]))], ref |-> Len(S.heap) + 1]

\* the return-path callback without clearTimeout(timer)
returnPathCallback_keepsTimer(S, n, response) ==
    [S EXCEPT !.req[n].responses = @ + 1,
              !.ch = unsubscribe(@, S.req[n].returnChannel, Responder(n)),
              !.req[n].promise = resolve(@, S.heap[response])]

\* the return-path callback without returnPath.unsubscribe()
returnPathCallback_keepsPath(S, n, response) ==
    [S EXCEPT !.req[n].timer = clearTimeout(@),
              !.req[n].responses = @ + 1,
              !.req[n].promise = resolve(@, S.heap[response])]

\* the callback subscribed to the return path (ElectronBus.js 197-201)
returnPathCallback(S, n, response) ==
    [S EXCEPT !.req[n].timer = clearTimeout(@),
              !.req[n].responses = @ + 1,
              !.ch = unsubscribe(@, S.req[n].returnChannel, Responder(n)),
              !.req[n].promise = resolve(@, S.heap[response])]

\* a send on endpoint e of bus b throws
sendThrows(b, e) == b = Main /\ e \in broken

RECURSIVE dispatch(_, _, _, _, _, _, _)
RECURSIVE localDispatch(_, _, _, _, _)
RECURSIVE forEachSubscriber(_, _, _, _, _, _)
RECURSIVE invoke(_, _, _, _, _)
RECURSIVE relay(_, _, _, _, _)

invoke(S, b, callback, payload, returnChannel) ==
    CASE callback.kind = "log"  -> S
      [] callback.kind = "bad"  -> [S EXCEPT !.threw = TRUE]
      [] callback.kind = "mutator" -> [S EXCEPT !.heap[payload] = [x |-> -1]]
      [] callback.kind = "canceller" -> [S EXCEPT !.ch = unsubscribe(@, "c", Log)]
      [] callback.kind = "echo" ->
            IF returnChannel # NoChannel
            THEN dispatch(S, b, returnChannel, payload, FALSE, 0, 0)
            ELSE S
      [] callback.kind = "responder" -> returnPathCallback(S, callback.id, payload)

\* for (const callback of this.channels.get(channel)): the iterator of a JS
\* Set is live, a callback deleted before its turn is not visited.
forEachSubscriber(S, b, channel, payload, returnChannel, done) ==
    LET live == IF channel \in DOMAIN S.ch THEN S.ch[channel] ELSE <<>>
        todo == SelectSeq(live, LAMBDA cb : cb \notin done)
    IN  IF todo = <<>> THEN S
        ELSE LET callback == Head(todo)
                 arg == cloneDeep(S, payload)
                 S1  == [Event(arg.S, "call") EXCEPT !.calls = Append(@,
                            [bus |-> b, channel |-> channel, callback |-> callback,
                             ref |-> arg.ref, payload |-> arg.S.heap[arg.ref],
                             returnChannel |-> returnChannel])]
                 S2  == invoke(S1, b, callback, arg.ref, returnChannel)
             IN  IF S2.threw
                 THEN [S2 EXCEPT !.threw = FALSE, !.unhandled = @ + 1]
                 ELSE forEachSubscriber(S2, b, channel, payload, returnChannel,
                                        done \cup {callback})

\* localDispatch creating the subscriber set of a channel that does not exist
localDispatch_createsChannel(S, b, channel, payload, returnChannel) ==
    IF channel \notin DOMAIN S.ch THEN [S EXCEPT !.ch = MapSet(@, channel, <<>>)]
    ELSE forEachSubscriber(S, b, channel, payload, returnChannel, {})

localDispatch(S, b, channel, payload, returnChannel) ==
    IF channel \notin DOMAIN S.ch THEN S
    ELSE forEachSubscriber(S, b, channel, payload, returnChannel, {})

\* for (const remote of this.remotes) remote.send(CHANNEL, new MessageEnvelope(..))
\* h names the promise of the dispatch whose executor runs this loop.
relay(S, b, message, rest, h) ==
    IF rest = <<>> THEN S
    ELSE LET e == Head(rest)
             S1 == [Event(S, "send") EXCEPT !.sends = Append(@,
                       [from |-> b, to |-> e, on |-> CHANNEL, data |-> message,
                        ok |-> ~sendThrows(b, e)])]
         IN  IF sendThrows(b, e)
             THEN IF h.waiting
                  THEN [S1 EXCEPT !.req[h.id].promise = reject(@, SendError)]
                  ELSE [S1 EXCEPT !.plain[h.id] = reject(@, SendError)]
             ELSE relay(S1, b, message, Tail(rest), h)

\* The executor of the promise runs inside new Promise(..): dispatch returns
\* its promise when the executor has run to its end (or has thrown).
dispatch(S, b, channel, payload, waiting, timeout, n) ==
    LET returnChannel == IF waiting THEN ReturnChannelName(channel, n) ELSE NoChannel
        h  == [waiting |-> waiting, id |-> IF waiting THEN n ELSE Len(S.plain) + 1]
        S0 == [S EXCEPT !.depth = @ + 1]
        S1 == IF waiting
              THEN Event(Event(
                   [S0 EXCEPT !.ch  = subscribe(@, returnChannel, Responder(n)),
                              !.req = MapSet(@, n, NewRequest(b, channel,
                                                 S.heap[payload], returnChannel)),
                              !.delay = IF timeout # 0 THEN timeout ELSE DefaultTimeout],
                   "subscribe"), "setTimeout")
              ELSE Event([S0 EXCEPT !.plain = Append(@, resolve(PendingPromise, Undefined))],
                         "resolve")
        S2 == localDispatch(S1, b, channel, payload, returnChannel)
        S3 == relay(S2, b, MessageEnvelope(channel, S2.heap[payload], returnChannel),
                    remotes[b], h)
    IN  [Event(S3, "return") EXCEPT !.depth = @ - 1]

\* onRemoteMessage putting the message on the bus again instead of
\* dispatching it locally only
onRemoteMessage_dispatches(S, b, data) ==
    IF isEnvelope(data) = FALSE THEN S
    ELSE dispatch(S, b, Get(data, "channel"), PayloadRef, FALSE, 0, 0)

\* const {channel, payload, returnChannel} = data: a property that data does
\* not have is undefined; data.payload is the object heap[PayloadRef]
onRemoteMessage(S, b, data) ==
    IF isEnvelope(data) = FALSE THEN S
    ELSE localDispatch(S, b, Get(data, "channel"), PayloadRef,
                       Get(data, "returnChannel"))

\* EventEmitter.emit: every listener registered on CHANNEL gets the message
RECURSIVE emit(_, _, _, _)
emit(S, b, data, k) ==
    IF k = 0 THEN S ELSE emit(onRemoteMessage(S, b, data), b, data, k - 1)

\* the timer callback without returnPath.unsubscribe()
timerCallback_keepsPath(S, n) ==
    [S EXCEPT !.req[n].timer = "fired",
              !.req[n].promise = reject(@, TimeOut)]

\* the timer callback (ElectronBus.js 205-208)
timerCallback(S, n) ==
    [S EXCEPT !.req[n].timer = "fired",
              !.ch = unsubscribe(@, S.req[n].returnChannel, Responder(n)),
              !.req[n].promise = reject(@, TimeOut)]

(* ------------------------------ the IPC -------------------------------- *)
Links == {<<Main, w>> : w \in Windows} \cup {<<w, Main>> : w \in Windows}

RECURSIVE Post(_, _)
Post(n, sends) ==
    IF sends = <<>> THEN n
    ELSE LET s == Head(sends)
         IN  Post(IF s.ok THEN [n EXCEPT ![<<s.from, s.to>>] = Append(@, [on |-> s.on, data |-> s.data])]
                  ELSE n,
                  Tail(sends))

\* what a call that ended in S leaves behind for the claims to look at
NoArgs == [channel |-> NoChannel, payload |-> Undefined, waiting |-> FALSE, n |-> 0,
           callback |-> NoCallback, had |-> FALSE, remote |-> NoRemote,
           data |-> Undefined]
Args(channel, payload, waiting, n) ==
    [NoArgs EXCEPT !.channel = channel, !.payload = payload, !.waiting = waiting, !.n = n]
\* the arguments of subscribe and unsubscribe; had: the callback was
\* subscribed to the channel when the call was made
CallbackArgs(b, channel, callback) ==
    [NoArgs EXCEPT !.channel = channel, !.callback = callback,
                   !.had = (channel \in DOMAIN channels[b]
                            /\ callback \in Range(channels[b][channel]))]

Record(op, b, S, args) ==
    [op |-> op, bus |-> b, args |-> args, calls |-> S.calls, sends |-> S.sends,
     plain |-> S.plain, unhandled |-> S.unhandled, delay |-> S.delay,
     trace |-> S.trace, heap |-> S.heap, error |-> S.error]

\* the state after a call on bus b that ended in S
Finish(b, S, op, args) ==
    /\ channels' = [channels EXCEPT ![b] = S.ch]
    /\ requests' = S.req
    /\ net' = Post(net, S.sends)
    /\ last' = Record(op, b, S, args)

\* Math.random: the numbers drawn are taken to differ from one waiting
\* dispatch to the next; which number is drawn changes names only, so the
\* draws are taken in increasing order.
Min(A) == CHOOSE x \in A : \A y \in A : x <= y
NextDraw == IF Draws \ DOMAIN requests = {} THEN 0 ELSE Min(Draws \ DOMAIN requests)

(* ------------------------------ actions -------------------------------- *)
\* The constructor: a renderer adds ipcRenderer and listens on it; the main
\* process attaches the window it is given, if any.
\* R: the endpoints and listeners of the bus, and the error the call raises
NewBus == [remotes |-> <<>>, listeners |-> 0, error |-> NoError]

\* w instanceof BrowserWindow
isBrowserWindow(w) == w \in Windows

\* attach without the check of its argument
attach_unchecked(R, remote) ==
    [R EXCEPT !.remotes = SetAdd(@, remote), !.listeners = @ + 1]

attach(R, remote) ==
    IF isBrowserWindow(remote) = FALSE THEN [R EXCEPT !.error = AttachError]
    ELSE [R EXCEPT !.remotes = SetAdd(@, remote), !.listeners = @ + 1]

\* A renderer does not look at the argument of its constructor.  When the
\* constructor throws there is no bus: the application goes on with the one
\* it makes by new ElectronBus(), whose fields are the ones left here.
constructor(b, remote) ==
    IF b # Main THEN [NewBus EXCEPT !.remotes = <<Main>>, !.listeners = 1]
    ELSE IF remote # NoRemote THEN attach(NewBus, remote)
    ELSE NewBus

InitWith(Remotes) ==
    /\ channels  = [b \in Buses |-> EmptyMap]
    /\ requests  = EmptyMap
    /\ net       = [l \in Links |-> <<>>]
    /\ broken    = {}
    /\ ops       = 0
    /\ \E remote \in Remotes :
         /\ remotes   = [b \in Buses |-> constructor(b, remote).remotes]
         /\ listeners = [b \in Buses |-> constructor(b, remote).listeners]
         /\ last      = Record("new", Main,
                               [Start(Main) EXCEPT !.error = constructor(Main, remote).error],
                               [NoArgs EXCEPT !.remote = remote])

Init == InitWith({"w1", NoRemote})

Subscribe(b, channel, callback) ==
    /\ ops < MaxOps
    /\ b \notin broken
    /\ ops' = ops + 1
    /\ Finish(b, [Start(b) EXCEPT !.ch = subscribe(@, channel, callback)], "subscribe",
              CallbackArgs(b, channel, callback))
    /\ UNCHANGED <<remotes, listeners, broken>>

Unsubscribe(b, channel, callback) ==
    /\ ops < MaxOps
    /\ b \notin broken
    /\ ops' = ops + 1
    /\ Finish(b, [Start(b) EXCEPT !.ch = unsubscribe(@, channel, callback)], "unsubscribe",
              CallbackArgs(b, channel, callback))
    /\ UNCHANGED <<remotes, listeners, broken>>

Dispatch(b, channel, payload, waiting, timeout, n) ==
    /\ ops < MaxOps
    /\ b \notin broken
    /\ waiting => n \in Draws
    /\ ops' = ops + 1
    /\ Finish(b, dispatch(StartWith(b, payload), b, channel, PayloadRef, waiting, timeout, n),
              "dispatch",
              Args(channel, payload, waiting, n))
    /\ UNCHANGED <<remotes, listeners, broken>>

\* the IPC hands the oldest message of a link to the listeners of its target
Deliver(from, b) ==
    /\ net[<<from, b>>] # <<>>
    /\ LET m == Head(net[<<from, b>>])
           S == emit(StartWith(b, Get(m.data, "payload")), b, m.data,
                     IF m.on = CHANNEL THEN listeners[b] ELSE 0)
       IN  /\ channels' = [channels EXCEPT ![b] = S.ch]
           /\ requests' = S.req
           /\ net' = Post([net EXCEPT ![<<from, b>>] = Tail(@)], S.sends)
           /\ last' = Record("deliver", b, S,
                             [Args(Get(m.data, "channel"), Get(m.data, "payload"), FALSE, 0)
                                EXCEPT !.data = m.data])
    /\ UNCHANGED <<remotes, listeners, broken, ops>>

\* the deadline of waiting dispatch n elapses
TimerFire(n) ==
    /\ n \in DOMAIN requests
    /\ requests[n].timer = "armed"
    /\ Finish(requests[n].bus, timerCallback(Start(requests[n].bus), n), "timer", NoArgs)
    /\ UNCHANGED <<remotes, listeners, broken, ops>>

\* a subscriber that kept the return channel it was handed answers on the
\* requester's bus after the deadline: bus.dispatch(returnChannel, response)
LateResponse(n) ==
    /\ n \in DOMAIN requests
    /\ requests[n].timer = "fired"
    /\ Dispatch(requests[n].bus, requests[n].returnChannel,
                PayloadOf(requests[n].bus), FALSE, 0, 0)

\* attach(remote) on the main bus
Attach(w) ==
    /\ ops < MaxOps
    /\ ops' = ops + 1
    /\ LET R == attach([NewBus EXCEPT !.remotes = remotes[Main],
                                      !.listeners = listeners[Main]], w)
       IN  /\ remotes' = [remotes EXCEPT ![Main] = R.remotes]
           /\ listeners' = [listeners EXCEPT ![Main] = R.listeners]
           /\ last' = Record("attach", Main, [Start(Main) EXCEPT !.error = R.error],
                             [NoArgs EXCEPT !.remote = w])
    /\ UNCHANGED <<channels, requests, net, broken>>

\* a value that is not the bus's own arrives on CHANNEL at a bus that listens
Inbound(b, data) ==
    /\ ops < MaxOps
    /\ listeners[b] > 0
    /\ b \notin broken
    /\ ops' = ops + 1
    /\ LET S == emit(StartWith(b, Get(data, "payload")), b, data, listeners[b])
       IN  Finish(b, S, "inbound",
                  [Args(Get(data, "channel"), Get(data, "payload"), FALSE, 0)
                      EXCEPT !.data = data])
    /\ UNCHANGED <<remotes, listeners, broken>>

\* the window behind an attached endpoint goes away: its send throws from now on
Break(w) ==
    /\ w \in Range(remotes[Main])
    /\ w \notin broken
    /\ broken' = broken \cup {w}
    /\ last' = Record("break", w, Start(w), NoArgs)
    /\ UNCHANGED <<channels, remotes, listeners, requests, net, ops>>

Next ==
    \/ \E b \in Buses, c \in Channels, cb \in UserCallbacks : Subscribe(b, c, cb)
    \/ \E b \in Buses, c \in Channels, cb \in UserCallbacks : Unsubscribe(b, c, cb)
    \/ \E b \in Buses, c \in Channels : \E in \in DispatchInputs(b) :
            Dispatch(b, c, in.payload, in.waiting, in.timeout,
                     IF in.waiting THEN NextDraw ELSE 0)
    \/ \E l \in Links : Deliver(l[1], l[2])
    \/ \E n \in Draws : TimerFire(n)
    \/ \E n \in Draws : LateResponse(n)
    \/ \E w \in Windows : Attach(w)
    \/ \E w \in Windows : Break(w)

Spec == Init /\ [][Next]_vars

\* The same buses with subscribers that act on what they are handed: they
\* write into their payload or unsubscribe from inside their invocation.
NextActing ==
    \/ \E b \in Buses, c \in Channels, cb \in ActingCallbacks : Subscribe(b, c, cb)
    \/ \E b \in Buses, c \in Channels, cb \in ActingCallbacks : Unsubscribe(b, c, cb)
    \/ \E b \in Buses, c \in Channels : \E in \in DispatchInputs(b) :
            Dispatch(b, c, in.payload, in.waiting, in.timeout,
                     IF in.waiting THEN NextDraw ELSE 0)
    \/ \E l \in Links : Deliver(l[1], l[2])
    \/ \E n \in Draws : TimerFire(n)

SpecActing == Init /\ [][NextActing]_vars

\* The same buses handed what is not theirs: attach and the constructor get
\* an object that is no window, the listeners get values that are no envelope.
NextForeign ==
    \/ \E b \in Buses, c \in Channels, cb \in UserCallbacks : Subscribe(b, c, cb)
    \/ \E b \in Buses, c \in Channels : \E in \in DispatchInputs(b) :
            Dispatch(b, c, in.payload, in.waiting, in.timeout,
                     IF in.waiting THEN NextDraw ELSE 0)
    \/ \E l \in Links : Deliver(l[1], l[2])
    \/ \E w \in Windows \cup InvalidRemotes : Attach(w)
    \/ \E b \in Buses, data \in InboundValues : Inbound(b, data)

SpecForeign == InitWith({"w1", NoRemote} \cup InvalidRemotes) /\ [][NextForeign]_vars

(* ------------------------- what the claims use ------------------------- *)
Subscribers(b, channel) ==
    IF channel \in DOMAIN channels[b] THEN Range(channels[b][channel]) ELSE {}

Called(cb, channel) ==
    \E i \in 1 .. Len(last.calls) :
        last.calls[i].callback = cb /\ last.calls[i].channel = channel

Settled(n) == requests[n].promise.state # "pending"

(* C1: a waiting dispatch is settled by one path only.  Of its return-path  *)
(* callback and its timer callback at most one ever runs: after a response  *)
(* the timer is cancelled and the promise is not rejected with the time-out;*)
(* after the timer has fired the return path is unsubscribed and the        *)
(* promise is never resolved.                                               *)
C1_SettledOnce ==
    \A n \in DOMAIN requests :
        LET r == requests[n]
        IN  /\ r.responses + (IF r.timer = "fired" THEN 1 ELSE 0) <= 1
            /\ r.responses = 1 =>
                    /\ r.timer = "cleared"
                    /\ r.promise # [state |-> "rejected", value |-> TimeOut]
            /\ r.timer = "fired" =>
                    /\ Responder(n) \notin Subscribers(r.bus, r.returnChannel)
                    /\ r.promise.state = "rejected"
            /\ r.promise.state = "resolved" => r.responses = 1

\* one request answered and another one timed out
C1_Witness ==
    \E n, m \in DOMAIN requests :
        /\ requests[n].responses = 1 /\ requests[n].promise.state = "resolved"
        /\ requests[m].timer = "fired" /\ requests[m].promise.value = TimeOut

(* C2: on every bus, every key of the registry has a non-empty subscriber   *)
(* set (a channel without subscribers is not a key).                        *)
C2_NoEmptyChannel ==
    \A b \in Buses : \A c \in DOMAIN channels[b] : Len(channels[b][c]) > 0

\* a return channel has been created and removed again, next to a user channel
C2_Witness ==
    \E n \in DOMAIN requests :
        /\ requests[n].timer # "armed"
        /\ requests[n].returnChannel \notin DOMAIN channels[requests[n].bus]
        /\ requests[n].channel \in DOMAIN channels[requests[n].bus]

(* C3: once the deadline timer of a waiting dispatch has fired without a    *)
(* response, its promise is rejected with the time-out error and its return *)
(* channel is absent from the registry.                                     *)
C3_TimeoutRejects ==
    \A n \in DOMAIN requests :
        requests[n].timer = "fired" =>
            /\ requests[n].promise = [state |-> "rejected", value |-> TimeOut]
            /\ requests[n].returnChannel \notin DOMAIN channels[requests[n].bus]

(* C4: local round trip.  When a waiting dispatch(c, p) has invoked a       *)
(* subscriber of c that replies on the return channel it was given, the     *)
(* promise is resolved with p when dispatch returns, the return channel is  *)
(* gone; and a resolved promise stays resolved with its timer cancelled.    *)
C4_LocalRoundTrip ==
    /\ (/\ last.op = "dispatch"
        /\ last.args.waiting
        /\ Called(Echo, last.args.channel))
       => LET r == requests[last.args.n]
          IN  /\ r.promise = [state |-> "resolved", value |-> last.args.payload]
              /\ r.returnChannel \notin DOMAIN channels[last.bus]
    /\ \A n \in DOMAIN requests :
          requests[n].promise.state = "resolved" =>
              /\ requests[n].timer = "cleared"
              /\ requests[n].returnChannel \notin DOMAIN channels[requests[n].bus]

\* a waiting dispatch that was answered by a local subscriber before it returned
C4_Witness ==
    /\ last.op = "dispatch"
    /\ last.args.waiting
    /\ Called(Echo, last.args.channel)
    /\ Called(Responder(last.args.n), requests[last.args.n].returnChannel)
    /\ requests[last.args.n].promise.value = last.args.payload

(* C5: cross-process round trip.  When the reply of a peer arrives as an    *)
(* envelope and is handed to the return-path callback of a waiting dispatch *)
(* (so before its timer fired), the promise of that dispatch is resolved    *)
(* with the reply.                                                          *)
C5_RemoteRoundTrip ==
    last.op = "deliver" =>
        \A i \in 1 .. Len(last.calls) :
            last.calls[i].callback.kind = "responder" =>
                requests[last.calls[i].callback.id].promise =
                    [state |-> "resolved", value |-> last.calls[i].payload]

(* C6: a waiting dispatch whose promise has settled has no return-path      *)
(* subscription in the registry and no pending timer.                       *)
C6_SettledIsCleanedUp ==
    \A n \in DOMAIN requests :
        Settled(n) =>
            /\ Responder(n) \notin Subscribers(requests[n].bus, requests[n].returnChannel)
            /\ requests[n].timer # "armed"

(* C7: when a subscriber of c throws during a delivery on c, every callback *)
(* that was subscribed to c when the delivery began is invoked for that     *)
(* message, and no subscription is removed from the registry.               *)
C7_SubscriberFailureIsolated ==
    [][(last'.op \in {"dispatch", "deliver"} /\ last'.unhandled > 0) =>
          /\ \A cb \in Subscribers(last'.bus, last'.args.channel) :
                \E i \in 1 .. Len(last'.calls) :
                    /\ last'.calls[i].callback = cb
                    /\ last'.calls[i].channel = last'.args.channel
          /\ \A c \in DOMAIN channels[last'.bus] :
                /\ c \in DOMAIN channels'[last'.bus]
                /\ \A cb \in UserCallbacks \cap Range(channels[last'.bus][c]) :
                      cb \in Range(channels'[last'.bus][c])]_vars

(* C8: when a send fails during a dispatch, the other attached endpoints    *)
(* still get the envelope of that dispatch, the promise of the dispatch is  *)
(* not rejected, and no endpoint is removed.                                *)
C8_SendFailureIsolated ==
    (/\ last.op = "dispatch"
     /\ \E i \in 1 .. Len(last.sends) : ~last.sends[i].ok)
    => /\ \A e \in Range(remotes[last.bus]) \ broken :
             \E i \in 1 .. Len(last.sends) :
                 /\ last.sends[i].to = e
                 /\ last.sends[i].ok
                 /\ last.sends[i].data.channel = last.args.channel
       /\ last.args.waiting => requests[last.args.n].promise.state # "rejected"
       /\ \A i \in 1 .. Len(last.plain) : last.plain[i].state # "rejected"

(* C9: a dispatch(channel, payload, options) calls send exactly once on     *)
(* every attached endpoint with the envelope (channel, payload,             *)
(* returnChannel), where returnChannel is the channel its caller waits on.  *)
C9_OneEnvelopePerEndpoint ==
    last.op = "dispatch" =>
        LET ret == IF last.args.waiting
                   THEN requests[last.args.n].returnChannel ELSE NoChannel
            env == MessageEnvelope(last.args.channel, last.args.payload, ret)
        IN  \A e \in Range(remotes[last.bus]) :
                Cardinality({i \in 1 .. Len(last.sends) :
                                /\ last.sends[i].to = e
                                /\ last.sends[i].data = env}) = 1

(* C10: handling an inbound envelope sends nothing by itself: every send    *)
(* made while an envelope is handled is the dispatch of a subscriber that   *)
(* was invoked with a return channel and replied on it.                     *)
C10_NoRelayOfRemoteMessages ==
    last.op = "deliver" =>
        \A i \in 1 .. Len(last.sends) :
            /\ last.sends[i].data.channel # last.args.channel
            /\ \E j \in 1 .. Len(last.calls) :
                  /\ last.calls[j].callback = Echo
                  /\ last.calls[j].returnChannel = last.sends[i].data.channel

\* the main bus, with two endpoints attached, delivered an envelope to a
\* local subscriber
C10_Witness ==
    /\ last.op = "deliver"
    /\ last.bus = Main
    /\ Len(remotes[Main]) = 2
    /\ last.calls # <<>>
    /\ last.sends = <<>>
(* C11: unsubscribe(channel, callback) is idempotent and total.  A call     *)
(* for a pair that is not subscribed (a second unsubscribe, a pair never    *)
(* subscribed, a channel the registry does not hold) leaves the registry    *)
(* exactly as it was and raises nothing; a call removes at most the named   *)
(* callback from the named channel, never another callback of that channel  *)
(* and never a callback of another channel or of another bus; repeating the *)
(* call changes nothing more.                                               *)
SubscribersIn(ch, channel) ==
    IF channel \in DOMAIN ch THEN Range(ch[channel]) ELSE {}

AllChannels == UNION {DOMAIN channels[b] : b \in Buses} \cup Channels

C11_UnsubscribeIdempotentTotal ==
    [][last'.op = "unsubscribe" =>
         LET b  == last'.bus
             c  == last'.args.channel
             cb == last'.args.callback
         IN  /\ \A b2 \in Buses \ {b} : channels'[b2] = channels[b2]
             /\ \A c2 \in AllChannels :
                    SubscribersIn(channels'[b], c2) =
                        SubscribersIn(channels[b], c2) \ (IF c2 = c THEN {cb} ELSE {})
             /\ cb \notin SubscribersIn(channels[b], c) => channels'[b] = channels[b]
             /\ unsubscribe(channels'[b], c, cb) = channels'[b]
             /\ requests' = requests /\ net' = net
             /\ last'.unhandled = 0 /\ last'.calls = <<>>]_vars

\* an unsubscribe of a pair that is not subscribed, on a channel that keeps
\* another subscriber
C11_Witness ==
    /\ last.op = "unsubscribe"
    /\ last.args.had = FALSE
    /\ Subscribers(last.bus, last.args.channel) # {}

(* C12: dispatch(c, payload) on a channel c that has no subscriber (never   *)
(* subscribed, or all its subscribers removed) returns without error and    *)
(* touches nothing of the bus: no callback is invoked, no callback throws,  *)
(* the registries of all buses and the waiting requests are exactly what    *)
(* they were (c is not created, no removed callback comes back), and the    *)
(* promise returned is resolved.  The envelopes sent to the attached        *)
(* endpoints are the relay, which does not depend on the subscribers.       *)
C12_DispatchOnEmptyChannel ==
    [][(/\ last'.op = "dispatch"
        /\ last'.args.waiting = FALSE
        /\ SubscribersIn(channels[last'.bus], last'.args.channel) = {})
       => /\ last'.calls = <<>>
          /\ last'.unhandled = 0
          /\ channels' = channels
          /\ requests' = requests
          /\ Len(last'.plain) = 1
          /\ last'.plain[1] = resolve(PendingPromise, Undefined)]_vars

\* a dispatch on a channel without subscribers, on a bus that has an endpoint
C12_Witness ==
    /\ last.op = "dispatch"
    /\ last.args.waiting = FALSE
    /\ last.calls = <<>>
    /\ last.args.channel \notin DOMAIN channels[last.bus]
    /\ last.sends # <<>>

(* C13: every subscriber of a dispatch is handed its own copy of the        *)
(* payload, equal in content to the payload dispatched.  No two invocations *)
(* share an object and none is handed the caller's object; what one         *)
(* subscriber writes into its copy shows neither in the caller's payload,   *)
(* nor in the copy of a subscriber that does not write, nor in the envelope *)
(* relayed to the remotes.                                                  *)
Delivery == last.op \in {"dispatch", "deliver"}

C13_IndependentCopies ==
    Delivery =>
        /\ \A i \in 1 .. Len(last.calls) :
              /\ last.calls[i].payload = last.args.payload
              /\ last.calls[i].ref # PayloadRef
              /\ \A j \in 1 .. Len(last.calls) :
                    i # j => last.calls[i].ref # last.calls[j].ref
              /\ last.calls[i].callback # Mutator =>
                    last.heap[last.calls[i].ref] = last.args.payload
        /\ last.heap[PayloadRef] = last.args.payload
        /\ \A k \in 1 .. Len(last.sends) :
              last.sends[k].data.payload = last.args.payload

\* a dispatch whose first subscriber has written into its copy, whose second
\* subscriber was invoked after it, and that was relayed to a remote
C13_Witness ==
    /\ last.op = "dispatch"
    /\ Len(last.calls) >= 2
    /\ last.calls[1].callback = Mutator
    /\ last.heap[last.calls[1].ref] # last.args.payload
    /\ last.calls[2].callback = Log
    /\ last.sends # <<>>

(* C14: attach, and the constructor of the main process when it is given a  *)
(* remote, called with an object that is no window (it lacks the remote     *)
(* capability) raises its error to the caller at once and changes nothing:  *)
(* the endpoints, the listeners, the registry and the requests are what     *)
(* they were, so the bus is as usable as before; no such object is ever an  *)
(* endpoint and no send is ever made to one.                                *)
C14_NeverAnEndpoint ==
    /\ \A b \in Buses : Range(remotes[b]) \cap InvalidRemotes = {}
    /\ \A k \in 1 .. Len(last.sends) : last.sends[k].to \notin InvalidRemotes
    /\ (last.op = "new" /\ last.args.remote \in InvalidRemotes) =>
          /\ last.error = AttachError
          /\ remotes[Main] = <<>> /\ listeners[Main] = 0

C14_FailedAttach ==
    (last'.op = "attach" /\ last'.args.remote \in InvalidRemotes) =>
        /\ last'.error = AttachError
        /\ remotes' = remotes /\ listeners' = listeners
        /\ channels' = channels /\ requests' = requests /\ net' = net
        /\ last'.calls = <<>> /\ last'.sends = <<>>

C14_InvalidRemoteRejected == []C14_NeverAnEndpoint /\ [][C14_FailedAttach]_vars

\* a failed attach on a bus that has an endpoint and a subscriber
C14_Witness ==
    /\ last.op = "attach"
    /\ last.args.remote \in InvalidRemotes
    /\ last.error = AttachError
    /\ remotes[Main] # <<>>
    /\ channels[Main] # EmptyMap

(* C15: whatever subscribe, unsubscribe and dispatch calls are made on a    *)
(* channel, calls made from inside a subscriber callback included, the      *)
(* registry holds no channel without subscribers, and a dispatch invokes    *)
(* every callback that was subscribed to its channel when it was called.    *)
C15_NoSubscriberLost ==
    /\ [](\A b \in Buses : \A c \in DOMAIN channels[b] : channels[b][c] # <<>>)
    /\ [][last'.op = "dispatch" =>
            \A cb \in SubscribersIn(channels[last'.bus], last'.args.channel) :
                \E i \in 1 .. Len(last'.calls) :
                    /\ last'.calls[i].callback = cb
                    /\ last'.calls[i].channel = last'.args.channel]_vars

(* C16: dispatch does not make its caller wait for the delivery.  It       *)
(* returns its promise before any local subscriber is invoked and before    *)
(* any envelope is sent to a remote: in the order of what a dispatch call   *)
(* does, no invocation and no send comes before the return of the call.     *)
Returned(j) == last.trace[j] = [e |-> "return", d |-> 1]

C16_ReturnsBeforeDelivery ==
    last.op = "dispatch" =>
        \A j \in 1 .. Len(last.trace) :
            Returned(j) =>
                \A i \in 1 .. j - 1 : last.trace[i].e \notin {"call", "send"}

(* C17: a value that arrives from a remote is delivered to the local       *)
(* subscribers if and only if it is not null or undefined and its type      *)
(* field is the envelope marker.  Any other value (null, undefined, a       *)
(* number, an empty object, an object with another type) is ignored: no     *)
(* subscriber is invoked, nothing is sent, the registry, the requests and   *)
(* the remotes are what they were, and no error is raised.  A value that    *)
(* has the marker goes to the subscribers of its channel: they are invoked  *)
(* in their order, from the first one, each with a copy of its payload.     *)
HasMarker(v) ==
    /\ v \notin {Null, Undefined}
    /\ "type" \in DOMAIN v
    /\ v.type = "electron-bus--message-envelope"

C17_OnlyEnvelopesDelivered ==
    [][last'.op \in {"inbound", "deliver"} =>
         LET b == last'.bus
             v == last'.args.data
         IN  /\ ~HasMarker(v) =>
                   /\ last'.calls = <<>> /\ last'.sends = <<>>
                   /\ channels' = channels /\ requests' = requests
                   /\ remotes' = remotes /\ listeners' = listeners
                   /\ last'.error = NoError /\ last'.unhandled = 0
             /\ (/\ HasMarker(v)
                 /\ listeners[b] > 0
                 /\ SubscribersIn(channels[b], Get(v, "channel")) # {}) =>
                   /\ last'.calls # <<>>
                   /\ last'.calls[1].callback = Head(channels[b][Get(v, "channel")])
                   /\ last'.calls[1].channel = Get(v, "channel")
                   /\ last'.calls[1].payload = Get(v, "payload")]_vars

\* an object with another type, addressed to a channel that has a subscriber,
\* has arrived and was ignored
C17_Witness ==
    /\ last.op = "inbound"
    /\ last.args.data = OtherType
    /\ last.calls = <<>>
    /\ SubscribersIn(channels[last.bus], "c") # {}

(* C18: within one dispatch call the subscription to the return channel    *)
(* and the deadline timer of a waiting request are in place before any      *)
(* subscriber is handed the message, and the delivery to all the local      *)
(* subscribers is attempted before the first envelope is sent: when the     *)
(* call sends an envelope, every subscriber its channel had has been        *)
(* invoked, and none is invoked after a send.                               *)
AtTop(t, i, e) == t[i] = [e |-> e, d |-> 1]

C18_LocalBeforeRemote ==
    [][last'.op = "dispatch" =>
         LET t == last'.trace
         IN  /\ \A i, j \in 1 .. Len(t) :
                   (AtTop(t, i, "send") /\ AtTop(t, j, "call")) => j < i
             /\ last'.args.waiting =>
                   /\ Len(t) >= 2
                   /\ AtTop(t, 1, "subscribe")
                   /\ AtTop(t, 2, "setTimeout")
             /\ last'.sends # <<>> =>
                   \A cb \in SubscribersIn(channels[last'.bus], last'.args.channel) :
                       \E i \in 1 .. Len(last'.calls) :
                           /\ last'.calls[i].callback = cb
                           /\ last'.calls[i].channel = last'.args.channel]_vars

(* C19: a response that comes on a return channel after the deadline timer *)
(* of its request has fired, dispatched on the requester's bus or arriving  *)
(* there as an envelope from a remote, is dropped silently: no callback is  *)
(* invoked, the request keeps its rejected result, nothing is raised and    *)
(* the registry is left as it was (the return channel does not come back).  *)
C19_LateResponseDropped ==
    [][\A n \in DOMAIN requests :
         (/\ requests[n].timer = "fired"
          /\ last'.op \in {"dispatch", "deliver"}
          /\ last'.bus = requests[n].bus
          /\ last'.args.channel = requests[n].returnChannel)
         => /\ last'.calls = <<>>
            /\ last'.unhandled = 0
            /\ last'.error = NoError
            /\ requests' = requests
            /\ channels' = channels]_vars

\* the envelope of a response has arrived at the bus of a request whose
\* timer had fired, and the request is still rejected with the time-out
C19_Witness ==
    /\ last.op = "deliver"
    /\ \E n \in DOMAIN requests :
          /\ requests[n].timer = "fired"
          /\ requests[n].promise = reject(PendingPromise, TimeOut)
          /\ last.bus = requests[n].bus
          /\ last.args.channel = requests[n].returnChannel

(* C20: an envelope that arrives from a remote is handed to every local    *)
(* subscriber of its channel exactly once, however many endpoints have been *)
(* attached to the bus.                                                     *)
Invocations(calls, cb, channel) ==
    {i \in 1 .. Len(calls) : calls[i].callback = cb /\ calls[i].channel = channel}

C20_DeliveredExactlyOnce ==
    [][(last'.op = "deliver" /\ listeners[last'.bus] > 0) =>
         \A cb \in SubscribersIn(channels[last'.bus], last'.args.channel) :
             Cardinality(Invocations(last'.calls, cb, last'.args.channel)) = 1]_vars

====
